---- MODULE Spec2Model ----
(***************************************************************************)
(* Model of the blog's content layer and its two routes.                   *)
(*                                                                         *)
(*   contentlayer.config.js  document types Post, Page, LinkPost and the   *)
(*                           computed fields slug and slugAsParams         *)
(*   app/page.tsx            the homepage: getHomePageContent,             *)
(*                           getAllContent, Home, the two summaries        *)
(*   post route              getPostFromParams, generateStaticParams,      *)
(*                           generateMetadata, PostPage                    *)
(*                                                                         *)
(* A JavaScript string is a sequence of one-character strings, so that     *)
(* split, slice, join and the template literal are computed, not assumed.  *)
(* A date is a <<year, month, day>> triple, as written in the front        *)
(* matter; new Date(..) turns it into a number that `>` compares.          *)
(* An optional field that is absent is a field the record does not have.   *)
(***************************************************************************)
EXTENDS Integers, Sequences, FiniteSets, TLC

VARIABLES
    allPosts,       \* generated collection of Post documents
    allLinkPosts,   \* generated collection of LinkPost documents
    allPages,       \* generated collection of Page documents
    sortImpl,       \* which Array.prototype.sort the JavaScript engine has
    lastCall,       \* the route function that ran last
    ret             \* what it returned or rendered

vars == <<allPosts, allLinkPosts, allPages, sortImpl, lastCall, ret>>

----------------------------------------------------------------------------
(* Bounds of the model *)

MaxPosts == 2
MaxLinkPosts == 1
MaxPages == 1

----------------------------------------------------------------------------
(* Strings *)

SLASH == "/"
STR_posts == <<"p", "o", "s", "t", "s">>
STR_pages == <<"p", "a", "g", "e", "s">>
STR_home == <<"_", "h", "o", "m", "e">>
STR_empty == <<>>

\* s.split("/"): the pieces between the separators; "" splits to [""]
RECURSIVE SplitFrom(_, _, _, _)
SplitFrom(s, i, cur, acc) ==
    IF i > Len(s) THEN Append(acc, cur)
    ELSE IF s[i] = SLASH THEN SplitFrom(s, i + 1, <<>>, Append(acc, cur))
    ELSE SplitFrom(s, i + 1, Append(cur, s[i]), acc)

Split(s) == SplitFrom(s, 1, <<>>, <<>>)

\* list.join("/"): [] joins to ""
RECURSIVE Join(_)
Join(list) ==
    IF Len(list) = 0 THEN <<>>
    ELSE IF Len(list) = 1 THEN list[1]
    ELSE list[1] \o <<SLASH>> \o Join(Tail(list))

\* list.slice(1)
Slice1(list) == IF Len(list) = 0 THEN <<>> ELSE Tail(list)

----------------------------------------------------------------------------
(* contentlayer.config.js *)

\* slug.resolve: `/${doc._raw.flattenedPath}`
slug(flattenedPath) == <<SLASH>> \o flattenedPath

\* slugAsParams.resolve: doc._raw.flattenedPath.split("/").slice(1).join("/")
slugAsParams_LastSegment(flattenedPath) ==
    LET parts == Split(flattenedPath) IN parts[Len(parts)]

slugAsParams_KeepFirst(flattenedPath) == Join(Split(flattenedPath))

slugAsParams(flattenedPath) == Join(Slice1(Split(flattenedPath)))

\* the values the front matter can give
Dates == {<<2024, 2, 17>>, <<2024, 3, 18>>}

\* an optional boolean field: absent, false or true
OptPublished == {<<>>, <<FALSE>>, <<TRUE>>}

WithPublished(doc, opt) ==
    IF Len(opt) = 0 THEN doc
    ELSE [f \in DOMAIN doc \cup {"published"} |->
            IF f = "published" THEN opt[1] ELSE doc[f]]

\* files matched by posts/**/*.md, with the flattened path of each
PostFiles ==
    { [_id |-> "posts/index.md", flattenedPath |-> STR_posts],
      [_id |-> "posts/a/b.md",
         flattenedPath |-> STR_posts \o <<SLASH, "a", SLASH, "b">>],
      [_id |-> "posts/a/b/index.md",
         flattenedPath |-> STR_posts \o <<SLASH, "a", SLASH, "b">>] }

\* files matched by pages/**/*.md
PageFiles ==
    { [_id |-> "pages/index.md", flattenedPath |-> STR_pages],
      [_id |-> "pages/_home.md", flattenedPath |-> STR_pages \o <<SLASH>> \o STR_home] }

\* files matched by link-posts/**/*.md
LinkPostFiles ==
    { [_id |-> "link-posts/w.md"] }

Post(file, date, opt) ==
    WithPublished(
        [type |-> "Post", _id |-> file._id, flattenedPath |-> file.flattenedPath,
         title |-> file._id, date |-> date,
         slug |-> slug(file.flattenedPath),
         slugAsParams |-> slugAsParams(file.flattenedPath)], opt)

Page(file) ==
    [type |-> "Page", _id |-> file._id, flattenedPath |-> file.flattenedPath,
     title |-> file._id,
     slug |-> slug(file.flattenedPath),
     slugAsParams |-> slugAsParams(file.flattenedPath)]

LinkPost(file, date, opt) ==
    WithPublished(
        [type |-> "LinkPost", _id |-> file._id, title |-> file._id,
         date |-> date, link |-> <<"h">>], opt)

Posts == { Post(f, d, o) : f \in PostFiles, d \in Dates, o \in OptPublished }
Pages == { Page(f) : f \in PageFiles }
LinkPosts == { LinkPost(f, d, o) : f \in LinkPostFiles, d \in Dates, o \in OptPublished }

\* a generated collection: one document per file, in any order
Collections(docs, max) ==
    { s \in UNION { [1..n -> docs] : n \in 0..max } :
        \A i, j \in 1..Len(s) : i # j => s[i]._id # s[j]._id }

----------------------------------------------------------------------------
(* app/page.tsx *)

\* new Date(date), as the number that `>` compares
DateValue(date) == (date[1] * 12 + date[2]) * 31 + date[3]

\* the function passed to sort
compareFn(a, b) ==
    IF DateValue(b.date) > DateValue(a.date) THEN -1 ELSE 1

\* Array.prototype.sort, as an insertion sort that asks compareFn(x, e) < 0
RECURSIVE InsertBefore(_, _, _)
InsertBefore(acc, x, i) ==
    IF i > Len(acc) THEN Append(acc, x)
    ELSE IF compareFn(x, acc[i]) < 0
         THEN SubSeq(acc, 1, i - 1) \o <<x>> \o SubSeq(acc, i, Len(acc))
         ELSE InsertBefore(acc, x, i + 1)

\* Array.prototype.sort, as an insertion sort that asks compareFn(e, x) > 0
RECURSIVE InsertAfter(_, _, _)
InsertAfter(acc, x, j) ==
    IF j = 0 THEN <<x>> \o acc
    ELSE IF compareFn(acc[j], x) > 0
         THEN InsertAfter(acc, x, j - 1)
         ELSE SubSeq(acc, 1, j) \o <<x>> \o SubSeq(acc, j + 1, Len(acc))

SortImpls == {"less", "greater"}

RECURSIVE SortFrom(_, _, _, _)
SortFrom(arr, k, acc, impl) ==
    IF k > Len(arr) THEN acc
    ELSE SortFrom(arr, k + 1,
                  IF impl = "less" THEN InsertBefore(acc, arr[k], 1)
                  ELSE InsertAfter(acc, arr[k], Len(acc)),
                  impl)

ArraySort(arr, impl) == SortFrom(arr, 1, <<>>, impl)

\* (v) => v.published
IsPublished_Always(v) == TRUE

IsPublished(v) == "published" \in DOMAIN v /\ v.published

\* getAllContent: the value returned, and the collections as the call leaves them
getAllContent_SortInPlace(posts, linkPosts, impl) ==
    [value |-> SelectSeq(ArraySort(posts \o linkPosts, impl), IsPublished),
     allPosts |-> ArraySort(posts, impl),
     allLinkPosts |-> ArraySort(linkPosts, impl)]

getAllContent_PostsOnly(posts, linkPosts, impl) ==
    [value |-> SelectSeq(ArraySort(posts, impl), IsPublished),
     allPosts |-> posts,
     allLinkPosts |-> linkPosts]

getAllContent(posts, linkPosts, impl) ==
    [value |-> SelectSeq(ArraySort(posts \o linkPosts, impl), IsPublished),
     allPosts |-> posts,
     allLinkPosts |-> linkPosts]

\* array.find(test): <<>> for undefined, else the first match
RECURSIVE FindSlug(_, _, _)
FindSlug(docs, s, i) ==
    IF i > Len(docs) THEN <<>>
    ELSE IF docs[i].slugAsParams = s THEN <<docs[i]>>
    ELSE FindSlug(docs, s, i + 1)

getHomePageContent(pages) == FindSlug(pages, STR_home, 1)

\* what Home's map callback returns for one item
Summary(content) ==
    IF content.type = "Post"
    THEN [component |-> "PostSummary", key |-> content._id, href |-> content.slug]
    ELSE [component |-> "LinkPostSummary", key |-> content._id, href |-> content.link]

Home ==
    LET r == getAllContent(allPosts, allLinkPosts, sortImpl) IN
    /\ allPosts' = r.allPosts
    /\ allLinkPosts' = r.allLinkPosts
    /\ lastCall' = "Home"
    /\ ret' = [homeContent |-> getHomePageContent(allPages),
               allContent |-> r.value,
               rendered |-> [i \in 1..Len(r.value) |-> Summary(r.value[i])]]
    /\ UNCHANGED <<allPages, sortImpl>>

----------------------------------------------------------------------------
(* the post route *)

\* the params a request can carry
ParamsInputs == { <<<<"a">>, <<"b">>>>, <<<<"a">>>>, <<STR_empty>> }

getPostFromParams(posts, params) == FindSlug(posts, Join(params), 1)

generateStaticParams_PublishedOnly(posts) ==
    LET pub == SelectSeq(posts, IsPublished) IN
    [i \in 1..Len(pub) |-> [slug |-> Split(pub[i].slugAsParams)]]

generateStaticParams(posts) ==
    [i \in 1..Len(posts) |-> [slug |-> Split(posts[i].slugAsParams)]]

GenerateStaticParams ==
    /\ lastCall' = "generateStaticParams"
    /\ ret' = [staticParams |-> generateStaticParams(allPosts)]
    /\ UNCHANGED <<allPosts, allLinkPosts, allPages, sortImpl>>

\* generateMetadata: {} when the lookup finds no post
generateMetadata(posts, params) ==
    LET post == getPostFromParams(posts, params) IN
    IF Len(post) = 0 THEN [kind |-> "empty"]
    ELSE [kind |-> "post", title |-> post[1].title]

GenerateMetadata(params) ==
    /\ lastCall' = "generateMetadata"
    /\ ret' = [params |-> params, metadata |-> generateMetadata(allPosts, params)]
    /\ UNCHANGED <<allPosts, allLinkPosts, allPages, sortImpl>>

\* PostPage: notFound() when the lookup finds no post, else the post's page
PostPage_AlwaysRender(posts, params) ==
    [notFound |-> FALSE, post |-> getPostFromParams(posts, params)]

PostPage(posts, params) ==
    LET post == getPostFromParams(posts, params) IN
    IF Len(post) = 0 THEN [notFound |-> TRUE, post |-> <<>>]
    ELSE [notFound |-> FALSE, post |-> post]

RenderPostPage(params) ==
    /\ lastCall' = "PostPage"
    /\ ret' = [params |-> params, page |-> PostPage(allPosts, params)]
    /\ UNCHANGED <<allPosts, allLinkPosts, allPages, sortImpl>>

\* the params the route extracts from a link: the segments after /posts
RouteParams(href) == Slice1(Slice1(Split(href)))

----------------------------------------------------------------------------
Init ==
    /\ allPosts \in Collections(Posts, MaxPosts)
    /\ allLinkPosts \in Collections(LinkPosts, MaxLinkPosts)
    /\ allPages \in Collections(Pages, MaxPages)
    /\ sortImpl \in SortImpls
    /\ lastCall = "none"
    /\ ret = [none |-> TRUE]

Next ==
    \/ Home
    \/ GenerateStaticParams
    \/ \E params \in ParamsInputs : GenerateMetadata(params)
    \/ \E params \in ParamsInputs : RenderPostPage(params)

Spec == Init /\ [][Next]_vars

----------------------------------------------------------------------------
(* Properties *)

\* everything the homepage reads, in the order getAllContent spreads it
Items == allPosts \o allLinkPosts

Range(seq) == { seq[i] : i \in 1..Len(seq) }

HasPublishedTrue(d) == "published" \in DOMAIN d /\ d.published = TRUE

Occurrences(seq, d) == Cardinality({ i \in 1..Len(seq) : seq[i] = d })

\* C1: after Home has run, no document of allPosts or allLinkPosts whose
\* published flag is false, or whose published field is absent, is in the list
\* getAllContent returned, nor among the summaries Home rendered.
C1_UnpublishedNotListed ==
    lastCall = "Home" =>
        \A d \in Range(Items) :
            ~HasPublishedTrue(d) =>
                /\ \A i \in 1..Len(ret.allContent) : ret.allContent[i]._id # d._id
                /\ \A i \in 1..Len(ret.rendered) : ret.rendered[i].key # d._id

\* Home has run over collections holding a published document, a document with
\* published: false and a document with no published field
C1_Witness ==
    /\ lastCall = "Home"
    /\ Len(ret.allContent) >= 1
    /\ \E d \in Range(Items) : "published" \in DOMAIN d /\ d.published = FALSE
    /\ \E d \in Range(Items) : "published" \notin DOMAIN d

\* C2: the list getAllContent returns is sorted newest first: of two listed
\* items with different dates, the one listed first has the later date.
C2_NewestFirst ==
    lastCall = "Home" =>
        \A i, j \in 1..Len(ret.allContent) :
            (i < j /\ ret.allContent[i].date # ret.allContent[j].date) =>
                DateValue(ret.allContent[i].date) > DateValue(ret.allContent[j].date)

NoSlash(s) == \A i \in 1..Len(s) : s[i] # SLASH

\* rest is p without its first segment (and without the "/" that ends it)
IsRestAfterFirstSegment(p, rest) ==
    \E k \in 0..Len(p) :
        /\ NoSlash(SubSeq(p, 1, k))
        /\ \/ k = Len(p) /\ rest = <<>>
           \/ k < Len(p) /\ p[k + 1] = SLASH /\ rest = SubSeq(p, k + 2, Len(p))

SegmentCount(p) == 1 + Cardinality({ i \in 1..Len(p) : p[i] = SLASH })

FirstSegment(p) ==
    LET k == CHOOSE n \in 0..Len(p) :
                 NoSlash(SubSeq(p, 1, n)) /\ (n = Len(p) \/ p[n + 1] = SLASH)
    IN SubSeq(p, 1, k)

\* C4: every Post and Page with flattened path p has slug = "/" followed by p
\* and slugAsParams = p with its first segment removed, so that slug is
\* "/" + first segment + "/" + slugAsParams when p has two segments or more;
\* a LinkPost has neither field.
C4_ComputedSlugs ==
    /\ \A d \in Range(allPosts) \cup Range(allPages) :
        /\ d.slug = <<SLASH>> \o d.flattenedPath
        /\ IsRestAfterFirstSegment(d.flattenedPath, d.slugAsParams)
        /\ SegmentCount(d.flattenedPath) >= 2 =>
             d.slug = <<SLASH>> \o FirstSegment(d.flattenedPath)
                        \o <<SLASH>> \o d.slugAsParams
    /\ \A d \in Range(allLinkPosts) :
        "slug" \notin DOMAIN d /\ "slugAsParams" \notin DOMAIN d

\* the collections hold a post of three segments, a document of one segment
\* and a link post
C4_Witness ==
    /\ \E d \in Range(allPosts) : SegmentCount(d.flattenedPath) >= 3
    /\ \E d \in Range(allPosts) \cup Range(allPages) :
           SegmentCount(d.flattenedPath) = 1
    /\ Len(allLinkPosts) >= 1

PairwiseDistinctSlugs ==
    \A i, j \in 1..Len(allPosts) :
        i # j => allPosts[i].slugAsParams # allPosts[j].slugAsParams

C6_ListingIsPublishedPermutation ==
    lastCall = "Home" =>
        /\ \A d \in Range(Items) :
               HasPublishedTrue(d) => Occurrences(ret.allContent, d) = 1
        /\ \A d \in Range(ret.allContent) : d \in Range(Items) /\ HasPublishedTrue(d)
        /\ Len(ret.rendered) = Len(ret.allContent)
        /\ \A i \in 1..Len(ret.allContent) :
            /\ ret.rendered[i].key = ret.allContent[i]._id
            /\ ret.allContent[i].type = "Post" =>
                   ret.rendered[i].component = "PostSummary"
            /\ ret.allContent[i].type = "LinkPost" =>
                   ret.rendered[i].component = "LinkPostSummary"

\* Home has listed a post and a link post, with an unpublished document left out
C6_Witness ==
    /\ lastCall = "Home"
    /\ \E i \in 1..Len(ret.rendered) : ret.rendered[i].component = "PostSummary"
    /\ \E i \in 1..Len(ret.rendered) : ret.rendered[i].component = "LinkPostSummary"
    /\ Len(ret.allContent) < Len(Items)

C9_ConsistentComparator ==
    lastCall = "Home" =>
        \A a, b \in Range(Items) :
            a._id # b._id =>
                /\ ~(compareFn(a, b) > 0 /\ compareFn(b, a) > 0)
                /\ a.date = b.date => compareFn(a, b) = 0

====
